---- MODULE Spec2Model ----
(***************************************************************************)
(* Model of scripts/classify_entries.py: the text normaliser, the Jaccard  *)
(* similarity, the best-match scan and the per-entry classification loop.  *)
(*                                                                         *)
(* A Python str is modelled as [type |-> "str", s |-> <<chars>>], a        *)
(* sequence of one-character strings; a non-str cell (the NaN pandas puts  *)
(* in a blank CSV cell, or None) is a record of another type.  A float in  *)
(* [0,1] produced by intersection / union is the reduced fraction          *)
(* <<num, den>>: IEEE division is correctly rounded, so two such quotients *)
(* of small integers are equal as floats exactly when they are equal as    *)
(* fractions, and they order the same way.                                 *)
(***************************************************************************)
EXTENDS Integers, Sequences, FiniteSets, TLC

VARIABLES entries_df, classifications_df, pc, idx, relevant_classifications,
          entry, k, max_similarity, best_match, results, text1, text2, ret

vars == <<entries_df, classifications_df, pc, idx, relevant_classifications,
          entry, k, max_similarity, best_match, results, text1, text2, ret>>

(***************************************************************************)
(* Bounds of the model.                                                    *)
(***************************************************************************)
MaxLen == 3
MaxRows == 3
MaxEntries == 2

(***************************************************************************)
(* Python values.                                                          *)
(***************************************************************************)
Str(chars) == [type |-> "str", s |-> chars]
NaN == [type |-> "float", s |-> <<>>]
None == [type |-> "NoneType", s |-> <<>>]

isinstance_str(text) == text.type = "str"

Upper == <<"A","B","C","D","E","F","G","H","I","J","K","L","M",
           "N","O","P","Q","R","S","T","U","V","W","X","Y","Z">>
Lower == <<"a","b","c","d","e","f","g","h","i","j","k","l","m",
           "n","o","p","q","r","s","t","u","v","w","x","y","z">>

Whitespace == {" ", "\t"}

\* the lowercase letter of each uppercase letter
LowerOf == [u \in {Upper[i] : i \in 1..Len(Upper)} |->
               Lower[CHOOSE i \in 1..Len(Upper) : Upper[i] = u]]

\* str.lower(), one character
LowerChar(c) == IF c \in DOMAIN LowerOf THEN LowerOf[c] ELSE c

\* str.lower()
lower(chars) == [i \in 1..Len(chars) |-> LowerChar(chars[i])]

RECURSIVE lstrip(_)
lstrip(chars) ==
    IF chars # <<>> /\ Head(chars) \in Whitespace THEN lstrip(Tail(chars)) ELSE chars

RECURSIVE rstrip(_)
rstrip(chars) ==
    IF chars # <<>> /\ chars[Len(chars)] \in Whitespace
    THEN rstrip(SubSeq(chars, 1, Len(chars) - 1))
    ELSE chars

\* str.strip()
strip(chars) == rstrip(lstrip(chars))

\* re.sub(r'\s+', ' ', chars): every maximal run of whitespace becomes one space
RECURSIVE re_sub_ws(_)
re_sub_ws(chars) ==
    IF chars = <<>> THEN <<>>
    ELSE IF Head(chars) \in Whitespace
         THEN <<" ">> \o re_sub_ws(lstrip(chars))
         ELSE <<Head(chars)>> \o re_sub_ws(Tail(chars))

\* the leading non-whitespace characters of chars
RECURSIVE TakeWord(_)
TakeWord(chars) ==
    IF chars = <<>> \/ Head(chars) \in Whitespace THEN <<>>
    ELSE <<Head(chars)>> \o TakeWord(Tail(chars))

\* str.split() without arguments: the maximal runs of non-whitespace, in order
RECURSIVE split(_)
split(chars) ==
    LET rest == lstrip(chars)
        word == TakeWord(rest)
    IN  IF rest = <<>> THEN <<>>
        ELSE <<word>> \o split(SubSeq(rest, Len(word) + 1, Len(rest)))

\* set(list)
set(list) == {list[i] : i \in 1..Len(list)}

normalize_text(text) ==
    IF ~isinstance_str(text) THEN Str(<<>>)
    ELSE Str(re_sub_ws(strip(lower(text.s))))

(***************************************************************************)
(* Floats in [0,1] as reduced fractions.                                   *)
(***************************************************************************)
RECURSIVE GCD(_, _)
GCD(a, b) == IF b = 0 THEN a ELSE GCD(b, a % b)

\* n / d for d > 0
Div(n, d) == <<n \div GCD(n, d), d \div GCD(n, d)>>

Zero == <<0, 1>>
One == <<1, 1>>

Gt(x, y) == x[1] * y[2] > y[1] * x[2]
Ge(x, y) == x[1] * y[2] >= y[1] * x[2]

\* calculate_similarity dividing the wrong way round
calculate_similarity_Inverted(t1, t2) ==
    LET set1 == set(split(normalize_text(t1).s))
        set2 == set(split(normalize_text(t2).s))
        intersection == Cardinality(set1 \cap set2)
        union == Cardinality(set1 \cup set2)
    IN  IF set1 = {} \/ set2 = {} THEN Zero
        ELSE IF intersection > 0 THEN Div(union, intersection) ELSE Zero

\* calculate_similarity taking len(set1) + len(set2) for the size of the union
calculate_similarity_SumUnion(t1, t2) ==
    LET set1 == set(split(normalize_text(t1).s))
        set2 == set(split(normalize_text(t2).s))
        intersection == Cardinality(set1 \cap set2)
        union == Cardinality(set1) + Cardinality(set2)
    IN  IF set1 = {} \/ set2 = {} THEN Zero
        ELSE IF union > 0 THEN Div(intersection, union) ELSE Zero

\* calculate_similarity dividing by len(set1) instead of the size of the union
calculate_similarity_OverFirst(t1, t2) ==
    LET set1 == set(split(normalize_text(t1).s))
        set2 == set(split(normalize_text(t2).s))
        intersection == Cardinality(set1 \cap set2)
    IN  IF set1 = {} \/ set2 = {} THEN Zero
        ELSE Div(intersection, Cardinality(set1))

calculate_similarity(t1, t2) ==
    LET set1 == set(split(normalize_text(t1).s))
        set2 == set(split(normalize_text(t2).s))
        intersection == Cardinality(set1 \cap set2)
        union == Cardinality(set1 \cup set2)
    IN  IF set1 = {} \/ set2 = {} THEN Zero
        ELSE IF union > 0 THEN Div(intersection, union) ELSE Zero


(***************************************************************************)
(* Tables.  A classification row and an entry are records of cells; the    *)
(* column "Account Type" is the field AccountType, and so on.              *)
(***************************************************************************)
ClassificationRow(account_type, primary, secondary, tertiary) ==
    [AccountType |-> account_type, PrimaryClassification |-> primary,
     SecondaryClassification |-> secondary, TertiaryClassification |-> tertiary]

Entry(entry_name, account_type) ==
    [EntryName |-> entry_name, AccountType |-> account_type]

T_Asset == Str(<<"A","s","s","e","t">>)
T_asset == Str(<<"a","s","s","e","t">>)
T_ASSET == Str(<<"A","S","S","E","T">>)
T_Liability == Str(<<"L","i","a","b","i","l","i","t","y">>)
T_liability == Str(<<"l","i","a","b","i","l","i","t","y">>)

L_Cash == Str(<<"C","a","s","h">>)
L_Bank == Str(<<"B","a","n","k">>)
L_Loans == Str(<<"L","o","a","n","s">>)
L_Accounts == Str(<<"A","c","c","o","u","n","t","s">>)
L_BankAccounts == Str(<<"B","a","n","k"," ","A","c","c","o","u","n","t","s">>)
L_BankLoans == Str(<<"B","a","n","k"," ","L","o","a","n","s">>)
L_CashInBank == Str(<<"C","a","s","h"," ","i","n"," ","B","a","n","k">>)
L_CashIn == Str(<<"C","a","s","h"," ","\t","i","n">>)

N_CashInBank == Str(<<"C","a","s","h"," ","i","n"," ","B","a","n","k">>)
N_cash == Str(<<" ","c","a","s","h"," ">>)
N_Widget == Str(<<"W","i","d","g","e","t">>)
N_BankLoans == Str(<<"B","a","n","k"," "," ","l","o","a","n","s">>)

\* the rows a classification tree is drawn from
RowPool ==
    { ClassificationRow(T_Asset, L_Cash, L_BankAccounts, L_CashInBank),
      ClassificationRow(T_Asset, L_Cash, L_Accounts, L_CashIn),
      ClassificationRow(T_ASSET, L_Bank, L_BankLoans, NaN),
      ClassificationRow(T_Liability, L_Loans, L_BankLoans, L_CashInBank) }

\* the entries a batch is drawn from
EntryPool ==
    { Entry(N_CashInBank, T_Asset),
      Entry(N_cash, T_asset),
      Entry(N_Widget, T_Asset),
      Entry(N_BankLoans, T_liability) }

\* the sequences over S of length at most n
SeqsUpTo(S, n) == UNION {[1..m -> S] : m \in 0..n}

\* the characters the texts of the similarity checks are made of
Alphabet == {"a", "A", "b", " ", "\t"}

\* the values calculate_similarity is applied to
SimValues == {Str(chars) : chars \in SeqsUpTo(Alphabet, MaxLen)} \cup {NaN, None}


(***************************************************************************)
(* find_best_match.                                                        *)
(***************************************************************************)
Max3(a, b, c) ==
    LET ab == IF Gt(b, a) THEN b ELSE a
    IN  IF Gt(c, ab) THEN c ELSE ab

\* row_similarity leaving the tertiary label out of the maximum
row_similarity_NoTertiary(e, row) ==
    LET primary_sim == calculate_similarity(e, row.PrimaryClassification)
        secondary_sim == calculate_similarity(e, row.SecondaryClassification)
    IN  Max3(primary_sim, secondary_sim, secondary_sim)

\* the score of one row: lines 34-39
row_similarity(e, row) ==
    LET primary_sim == calculate_similarity(e, row.PrimaryClassification)
        secondary_sim == calculate_similarity(e, row.SecondaryClassification)
        tertiary_sim == calculate_similarity(e, row.TertiaryClassification)
    IN  Max3(primary_sim, secondary_sim, tertiary_sim)

\* the test of line 41 written with >=
ImprovesOrTies(similarity, max_sim) == Ge(similarity, max_sim)

\* the test of line 41
Improves(similarity, max_sim) == Gt(similarity, max_sim)

\* the dict of lines 43-48
match_dict(row) ==
    [type |-> "dict",
     accountType |-> row.AccountType,
     primaryClassification |-> row.PrimaryClassification,
     secondaryClassification |-> row.SecondaryClassification,
     tertiaryClassification |-> row.TertiaryClassification]

(***************************************************************************)
(* classify_entries.                                                       *)
(***************************************************************************)
UNKNOWN == Str(<<"U","N","K","N","O","W","N">>)

\* f"{account_type} Master Sheet"
master_sheet(account_type) == Str(account_type.s \o <<" ","M","a","s","t","e","r"," ","S","h","e","e","t">>)

\* Series.str.lower(): a non-str cell becomes NaN
str_lower(cell) == IF isinstance_str(cell) THEN Str(lower(cell.s)) ELSE NaN

\* the row mask of line 62 without the two lower() calls
account_type_matches_CaseSensitive(row, account_type) ==
    /\ isinstance_str(row.AccountType)
    /\ row.AccountType = account_type

\* the row mask of line 62; NaN equals nothing
account_type_matches(row, account_type) ==
    /\ isinstance_str(row.AccountType)
    /\ str_lower(row.AccountType) = Str(lower(account_type.s))

\* the boolean-mask selection of lines 61-63
filter_classifications(df, account_type) ==
    SelectSeq(df, LAMBDA row : account_type_matches(row, account_type))

\* the dict of lines 67-75 with the tertiary level left blank
unknown_classification_BlankTertiary(entry_name, account_type) ==
    [entryName |-> entry_name,
     accountType |-> account_type,
     primaryClassification |-> UNKNOWN,
     secondaryClassification |-> UNKNOWN,
     tertiaryClassification |-> Str(<<>>),
     confidence |-> Zero,
     masterSheet |-> master_sheet(account_type)]

\* the dict of lines 67-75
unknown_classification(entry_name, account_type) ==
    [entryName |-> entry_name,
     accountType |-> account_type,
     primaryClassification |-> UNKNOWN,
     secondaryClassification |-> UNKNOWN,
     tertiaryClassification |-> UNKNOWN,
     confidence |-> Zero,
     masterSheet |-> master_sheet(account_type)]

\* the dict of lines 80-88 taking the account type from the matched row
matched_classification_RowType(entry_name, account_type, match, confidence) ==
    [entryName |-> entry_name,
     accountType |-> match.accountType,
     primaryClassification |-> match.primaryClassification,
     secondaryClassification |-> match.secondaryClassification,
     tertiaryClassification |-> match.tertiaryClassification,
     confidence |-> confidence,
     masterSheet |-> master_sheet(match.accountType)]

\* the dict of lines 80-88
matched_classification(entry_name, account_type, match, confidence) ==
    [entryName |-> entry_name,
     accountType |-> account_type,
     primaryClassification |-> match.primaryClassification,
     secondaryClassification |-> match.secondaryClassification,
     tertiaryClassification |-> match.tertiaryClassification,
     confidence |-> confidence,
     masterSheet |-> master_sheet(account_type)]

\* the values the variables of the similarity checks keep in the other specifications
SimIdle == text1 = None /\ text2 = None /\ ret = None

Init ==
    /\ entries_df \in SeqsUpTo(EntryPool, MaxEntries)
    /\ classifications_df \in SeqsUpTo(RowPool, MaxRows)
    /\ pc = "loop"
    /\ idx = 0
    /\ relevant_classifications = <<>>
    /\ entry = None
    /\ k = 0
    /\ max_similarity = Zero
    /\ best_match = None
    /\ results = <<>>
    /\ SimIdle

\* lines 56-63: the next entry is taken and the table filtered by its account type
NextEntry ==
    /\ pc = "loop"
    /\ idx < Len(entries_df)
    /\ idx' = idx + 1
    /\ relevant_classifications' =
           filter_classifications(classifications_df, entries_df[idx + 1].AccountType)
    /\ pc' = "filtered"
    /\ UNCHANGED <<entries_df, classifications_df, entry, k, max_similarity,
                   best_match, results, text1, text2, ret>>

\* lines 65-75, 90: no row of the entry's account type
EmitUnknown ==
    /\ pc = "filtered"
    /\ relevant_classifications = <<>>
    /\ results' = Append(results,
           unknown_classification(entries_df[idx].EntryName, entries_df[idx].AccountType))
    /\ pc' = "loop"
    /\ UNCHANGED <<entries_df, classifications_df, idx, relevant_classifications,
                   entry, k, max_similarity, best_match, text1, text2, ret>>

\* lines 76-78, 28-30: find_best_match is entered
CallFindBestMatch ==
    /\ pc = "filtered"
    /\ relevant_classifications # <<>>
    /\ entry' = normalize_text(entries_df[idx].EntryName)
    /\ max_similarity' = Zero
    /\ best_match' = None
    /\ k' = 1
    /\ pc' = "scan"
    /\ UNCHANGED <<entries_df, classifications_df, idx, relevant_classifications,
                   results, text1, text2, ret>>

\* lines 32-48: one iteration of the loop over the candidate rows
ScanRow ==
    /\ pc = "scan"
    /\ k <= Len(relevant_classifications)
    /\ LET row == relevant_classifications[k]
           similarity == row_similarity(entry, row)
       IN  IF Improves(similarity, max_similarity)
           THEN /\ max_similarity' = similarity
                /\ best_match' = match_dict(row)
           ELSE UNCHANGED <<max_similarity, best_match>>
    /\ k' = k + 1
    /\ UNCHANGED <<entries_df, classifications_df, pc, idx, relevant_classifications,
                   entry, results, text1, text2, ret>>

\* line 50: the loop is exhausted and (best_match, max_similarity) returned
ReturnBestMatch ==
    /\ pc = "scan"
    /\ k > Len(relevant_classifications)
    /\ pc' = "returned"
    /\ UNCHANGED <<entries_df, classifications_df, idx, relevant_classifications,
                   entry, k, max_similarity, best_match, results, text1, text2, ret>>

\* lines 80-90: the returned dict is read and the result appended
EmitMatch ==
    /\ pc = "returned"
    /\ best_match # None
    /\ results' = Append(results,
           matched_classification(entries_df[idx].EntryName, entries_df[idx].AccountType,
                                  best_match, max_similarity))
    /\ pc' = "loop"
    /\ UNCHANGED <<entries_df, classifications_df, idx, relevant_classifications,
                   entry, k, max_similarity, best_match, text1, text2, ret>>

\* line 83: best_match is None and None['primaryClassification'] raises TypeError,
\* which nothing catches
RaiseTypeError ==
    /\ pc = "returned"
    /\ best_match = None
    /\ pc' = "TypeError"
    /\ UNCHANGED <<entries_df, classifications_df, idx, relevant_classifications,
                   entry, k, max_similarity, best_match, results, text1, text2, ret>>

\* line 92: the entries are exhausted and results returned
ReturnResults ==
    /\ pc = "loop"
    /\ idx = Len(entries_df)
    /\ pc' = "done"
    /\ UNCHANGED <<entries_df, classifications_df, idx, relevant_classifications,
                   entry, k, max_similarity, best_match, results, text1, text2, ret>>

Next ==
    \/ NextEntry
    \/ EmitUnknown
    \/ CallFindBestMatch
    \/ ScanRow
    \/ ReturnBestMatch
    \/ EmitMatch
    \/ RaiseTypeError
    \/ ReturnResults

Spec == Init /\ [][Next]_vars

(***************************************************************************)
(* find_best_match on its own: any entry text against any candidate rows,  *)
(* the empty table included, from the state lines 28-30 leave.             *)
(***************************************************************************)
MatchInit ==
    /\ entries_df \in {<<e>> : e \in EntryPool}
    /\ classifications_df = <<>>
    /\ relevant_classifications \in SeqsUpTo(RowPool, MaxRows)
    /\ pc = "scan"
    /\ idx = 1
    /\ entry = normalize_text(entries_df[1].EntryName)
    /\ k = 1
    /\ max_similarity = Zero
    /\ best_match = None
    /\ results = <<>>
    /\ SimIdle

MatchNext == ScanRow \/ ReturnBestMatch

MatchSpec == MatchInit /\ [][MatchNext]_vars

(***************************************************************************)
(* calculate_similarity on its own.                                        *)
(***************************************************************************)
SimInit ==
    /\ text1 \in SimValues
    /\ text2 \in SimValues
    /\ ret = None
    /\ pc = "sim_call"
    /\ entries_df = <<>>
    /\ classifications_df = <<>>
    /\ idx = 0
    /\ relevant_classifications = <<>>
    /\ entry = None
    /\ k = 0
    /\ max_similarity = Zero
    /\ best_match = None
    /\ results = <<>>

\* lines 14-24
CallSimilarity ==
    /\ pc = "sim_call"
    /\ ret' = calculate_similarity(text1, text2)
    /\ pc' = "sim_ret"
    /\ UNCHANGED <<entries_df, classifications_df, idx, relevant_classifications,
                   entry, k, max_similarity, best_match, results, text1, text2>>

SimNext == CallSimilarity

SimSpec == SimInit /\ [][SimNext]_vars


(***************************************************************************)
(* Vocabulary of the properties.                                           *)
(***************************************************************************)
\* two strings are equal once both are lowercased
SameIgnoringCase(a, b) ==
    /\ Len(a.s) = Len(b.s)
    /\ \A j \in 1..Len(a.s) : LowerChar(a.s[j]) = LowerChar(b.s[j])

\* the positions of the table rows of entry i's account type
CandidateIndices(i) ==
    {j \in 1..Len(classifications_df) :
        SameIgnoringCase(classifications_df[j].AccountType, entries_df[i].AccountType)}

Candidates(i) == {classifications_df[j] : j \in CandidateIndices(i)}

Labels(row) ==
    {row.PrimaryClassification, row.SecondaryClassification, row.TertiaryClassification}

\* entry i has candidate rows and shares no token with any label of any of them
ZeroOverlap(i) ==
    /\ Candidates(i) # {}
    /\ \A row \in Candidates(i) : \A label \in Labels(row) :
           calculate_similarity(entries_df[i].EntryName, label) = Zero

\* classify_entries is through with entry i: a later entry was taken, or the loop
\* is between entries, or the call has ended
Handled(i) == i < idx \/ (i = idx /\ pc \in {"loop", "done", "TypeError"})

IsUnknownResult(r) ==
    /\ r.primaryClassification = UNKNOWN
    /\ r.secondaryClassification = UNKNOWN
    /\ r.tertiaryClassification = UNKNOWN
    /\ r.confidence = Zero

\* the three classification fields of r are those of one row of rows
FromRowOf(r, rows) ==
    \E row \in rows :
        /\ r.primaryClassification = row.PrimaryClassification
        /\ r.secondaryClassification = row.SecondaryClassification
        /\ r.tertiaryClassification = row.TertiaryClassification

\* every cell of the two tables is a str
AllStrings ==
    /\ \A i \in 1..Len(entries_df) :
           isinstance_str(entries_df[i].EntryName) /\ isinstance_str(entries_df[i].AccountType)
    /\ \A j \in 1..Len(classifications_df) :
           /\ isinstance_str(classifications_df[j].AccountType)
           /\ \A label \in Labels(classifications_df[j]) : isinstance_str(label)

InFindBestMatch == pc \in {"scan", "returned"}

(***************************************************************************)
(* C1: an entry whose account type is, ignoring case, that of no row of    *)
(* the table (the empty table included) gets a result whose three          *)
(* classification fields are "UNKNOWN" and whose confidence is 0.0, and    *)
(* control is never inside find_best_match for such an entry.              *)
(***************************************************************************)
C1_UnknownWithoutCandidates ==
    /\ \A i \in 1..Len(entries_df) :
           (Handled(i) /\ Candidates(i) = {}) =>
               /\ Len(results) >= i
               /\ IsUnknownResult(results[i])
    /\ (InFindBestMatch \/ pc = "TypeError") => Candidates(idx) # {}

C1_Witness ==
    /\ Len(results) = 2
    /\ classifications_df # <<>>
    /\ Candidates(2) = {}
    /\ Candidates(1) # {}

(***************************************************************************)
(* C2: an entry with candidate rows that all score 0.0 gets a result built *)
(* from one of its candidate rows, with confidence 0.0, not "UNKNOWN".     *)
(* Stated for tables whose cells are all strings.                          *)
(***************************************************************************)
C2_ZeroScoreEmitsCandidateRow ==
    \A i \in 1..Len(entries_df) :
        (AllStrings /\ Handled(i) /\ ZeroOverlap(i)) =>
            /\ Len(results) >= i
            /\ FromRowOf(results[i], Candidates(i))
            /\ results[i].confidence = Zero

(***************************************************************************)
(* C4: the rows handed to find_best_match are exactly the table rows whose *)
(* account type equals the entry's once both are lowercased, in table      *)
(* order, and a matched entry's classification is that of one of them.     *)
(***************************************************************************)
C4_FilterExactIgnoringCase ==
    /\ pc \in {"filtered", "scan", "returned", "TypeError"} =>
           relevant_classifications =
               SelectSeq(classifications_df,
                   LAMBDA row : SameIgnoringCase(row.AccountType, entries_df[idx].AccountType))
    /\ \A i \in 1..Len(results) :
           Candidates(i) # {} => FromRowOf(results[i], Candidates(i))

C4_Witness ==
    /\ Len(results) >= 1
    /\ entries_df[1].AccountType = T_asset
    /\ Candidates(1) # {}
    /\ \E j \in 1..Len(classifications_df) : j \notin CandidateIndices(1)
    /\ FromRowOf(results[1], Candidates(1))

(***************************************************************************)
(* C5: the confidence of every emitted result, and the running maximum of  *)
(* find_best_match, lie in [0,1].                                          *)
(***************************************************************************)
InUnitInterval(x) == Ge(x, Zero) /\ Ge(One, x)

C5_ConfidenceInUnitInterval ==
    /\ InUnitInterval(max_similarity)
    /\ \A i \in 1..Len(results) : InUnitInterval(results[i].confidence)

C5_Witness ==
    \E i \in 1..Len(results) :
        Gt(results[i].confidence, Zero) /\ Gt(One, results[i].confidence)

(***************************************************************************)
(* C8: in every result, accountType is the entry's account type as given   *)
(* and masterSheet is that string followed by " Master Sheet".             *)
(***************************************************************************)
C8_AccountTypeVerbatim ==
    \A i \in 1..Len(results) :
        /\ results[i].accountType = entries_df[i].AccountType
        /\ results[i].masterSheet =
               Str(entries_df[i].AccountType.s \o <<" ","M","a","s","t","e","r"," ","S","h","e","e","t">>)

C8_Witness ==
    /\ Len(results) = 2
    /\ IsUnknownResult(results[1])
    /\ Candidates(2) # {}
    /\ \A row \in Candidates(2) : row.AccountType # entries_df[2].AccountType

(***************************************************************************)
(* C10: on a table and a batch whose cells are all strings the call        *)
(* returns, with one result per entry, in entry order, the i-th result     *)
(* carrying the i-th entry's name.                                         *)
(***************************************************************************)
C10_OneResultPerEntry ==
    /\ (AllStrings /\ pc # "done") => (pc # "TypeError" /\ Len(results) <= Len(entries_df))
    /\ (AllStrings /\ pc = "done") =>
           /\ Len(results) = Len(entries_df)
           /\ \A i \in 1..Len(entries_df) : results[i].entryName = entries_df[i].EntryName


(***************************************************************************)
(* C3: after find_best_match has scanned any prefix of the candidate rows, *)
(* the best match is the earliest row of the prefix with the maximal       *)
(* score: a later row with an equal score never replaces it.               *)
(***************************************************************************)
Score(j) == row_similarity(entry, relevant_classifications[j])

\* j is the first of the rows 1..n whose score no row of 1..n exceeds
FirstMaximal(j, n) ==
    /\ \A m \in 1..n : Ge(Score(j), Score(m))
    /\ \A m \in 1..(j - 1) : Gt(Score(j), Score(m))

LabelScores ==
    {calculate_similarity(entries_df[1].EntryName, label) :
        label \in UNION {Labels(relevant_classifications[j]) :
                            j \in 1..Len(relevant_classifications)}}

Tokens(text) == set(split(normalize_text(text).s))

SomeLabelHasEntryTokens ==
    /\ Tokens(entries_df[1].EntryName) # {}
    /\ \E j \in 1..Len(relevant_classifications) :
           \E label \in Labels(relevant_classifications[j]) :
               Tokens(label) = Tokens(entries_df[1].EntryName)

C9_ScoreIsMaximum ==
    pc = "returned" =>
        /\ max_similarity \in LabelScores \cup {Zero}
        /\ \A x \in LabelScores : Ge(max_similarity, x)
        /\ SomeLabelHasEntryTokens =>
               /\ max_similarity = One
               /\ best_match # None
               /\ \E label \in {best_match.primaryClassification,
                                best_match.secondaryClassification,
                                best_match.tertiaryClassification} :
                      calculate_similarity(entries_df[1].EntryName, label) = One

C9_Witness ==
    /\ pc = "returned"
    /\ SomeLabelHasEntryTokens
    /\ Len(relevant_classifications) >= 2
    /\ calculate_similarity(entries_df[1].EntryName, best_match.primaryClassification) # One
    /\ calculate_similarity(entries_df[1].EntryName, best_match.secondaryClassification) # One

(***************************************************************************)
(* C6: calculate_similarity(a, a) is 1.0, for every text a that has a      *)
(* token, that is, a character that is not whitespace.  C6_Original states *)
(* it for every text of at least one character.                            *)
(***************************************************************************)
HasToken(text) ==
    isinstance_str(text) /\ \E j \in 1..Len(text.s) : text.s[j] \notin Whitespace

C6_IdenticalTextsScoreOne ==
    (pc = "sim_ret" /\ text1 = text2 /\ HasToken(text1)) => ret = One

C6_Original ==
    (pc = "sim_ret" /\ text1 = text2 /\ isinstance_str(text1) /\ text1.s # <<>>) => ret = One

C6_Witness ==
    /\ pc = "sim_ret"
    /\ text1 = text2
    /\ text1 = Str(<<"a", " ", "A">>)
    /\ ret = One

(***************************************************************************)
(* C7: calculate_similarity(a, b) = calculate_similarity(b, a), for all    *)
(* values a and b, strings or not.                                         *)
(***************************************************************************)
C7_Symmetric ==
    pc = "sim_ret" => ret = calculate_similarity(text2, text1)

C7_Witness ==
    /\ pc = "sim_ret"
    /\ Cardinality(Tokens(text1)) = 1
    /\ Cardinality(Tokens(text2)) = 2
    /\ ret = <<1, 2>>

====
